---- MODULE Spec2Model ----
(***************************************************************************)
(* Model of spaceship_challenge.cpp: main loads a parts file, constructs   *)
(* a Spaceship from the lines (shuffle, classify by keyword substring,     *)
(* copy the weapons) and prints it.                                        *)
(*                                                                         *)
(* Strings are TLA+ strings; find is a real substring search.  The two     *)
(* things the C++ standard leaves open are drawn nondeterministically:     *)
(* the iteration order of the unordered_map of keywords, and the value a   *)
(* std::string keeps after it was moved from (libstdc++ clears it with     *)
(* the default string ABI and swaps it on move-assignment with the old     *)
(* copy-on-write ABI).                                                     *)
(***************************************************************************)
EXTENDS Integers, Sequences, FiniteSets, TLC

VARIABLES
    pc,            \* position of main: "exists","open","read","ctor","loop","print","weapons","return","exit"
    fileStatus,    \* the file system at parts_filename: "missing","unopenable","ok"
    fileLines,     \* the lines of the file (when it exists)
    stringABI,     \* what a moved-from std::string holds in this build
    vec,           \* fetch_parts_list: the vector being read
    part_list,     \* Spaceship::Spaceship: the (shuffled) argument
    order,         \* iteration order of part_types_list
    idx,           \* outer loop: 1-based index of the next element of part_list
    weaponParts,   \* Spaceship::Spaceship: local vector
    _parts,        \* Spaceship::_parts (a function on the keys present)
    _smallWings,
    _largeWings,
    _weapons,
    out,           \* chunks written to std::cout
    err,           \* chunks written to std::cerr
    exit_code      \* value returned by main (NoExit while running)

vars == <<pc, fileStatus, fileLines, stringABI, vec, part_list, order, idx,
          weaponParts, _parts, _smallWings, _largeWings, _weapons, out, err,
          exit_code>>

(***************************************************************************)
(* Bounds of the model.                                                    *)
(***************************************************************************)
MaxLines == 4

\* how many rotations of the base keyword order the model draws from
MaxRotation == 3

\* The lines a parts file is made of: one line for each of Engine, Fuselage,
\* Cabin, Wings and Weapon, a line naming two single-valued categories
\* (Armor and Engine), a line naming Wings and Weapon, and a line naming none.
Pool == <<"big engine", "long fuselage", "cabin", "small wings",
          "laser weapon", "armored engine", "wings weapon", "cockpit">>

\* Parts files of the model: every multiset of at most MaxLines pool lines,
\* written in pool order.  The constructor's shuffle then produces every
\* ordering of every such file.
Files ==
    UNION { { [i \in 1..n |-> Pool[f[i]]] :
                f \in { g \in [1..n -> 1..Len(Pool)] :
                          \A i \in 1..(n - 1) : g[i] <= g[i + 1] } } :
            n \in 0..MaxLines }

(***************************************************************************)
(* Program constants.                                                      *)
(***************************************************************************)
\* enum class Part_Type, in declaration order
Part_Type == <<"Engine", "Fuselage", "Cabin", "Wings", "Armor", "Weapon">>

\* part_types_list: Part_Type -> keyword
part_types_list ==
    [t \in {Part_Type[n] : n \in 1..Len(Part_Type)} |->
        CASE t = "Engine"   -> "engine"
          [] t = "Fuselage" -> "fuselage"
          [] t = "Cabin"    -> "cabin"
          [] t = "Wings"    -> "wings"
          [] t = "Armor"    -> "armor"
          [] t = "Weapon"   -> "weapon"]

\* std::array<std::string, 4> _weapons
WeaponSlots == 4

\* std::string::npos, the value find returns when there is no occurrence
npos == -1

\* the default argument of main
parts_filename == "vehicle_parts.txt"

\* Orders in which the loop over part_types_list visits the keywords.  The
\* order of an unordered_map is unspecified and the same for every line of a
\* run.  libstdc++ yields the reverse of the insertion order; the model draws
\* from rotations of that order.  Rotations 0..3 already put Armor and
\* Engine, and Wings and Weapon, in both relative orders.
Rotate(s, r) == [n \in 1..Len(s) |-> s[((n + r - 1) % Len(s)) + 1]]

Reverse(s) == [n \in 1..Len(s) |-> s[Len(s) + 1 - n]]

Orders == { Rotate(Reverse(Part_Type), r) : r \in 0..MaxRotation }

StringABIs == {"sso", "cow"}

(***************************************************************************)
(* Pure helpers.                                                           *)
(***************************************************************************)
Min(S) == CHOOSE x \in S : \A y \in S : x <= y

\* std::string::find(k): 0-based position of the first occurrence, or npos
find(s, k) ==
    LET hits == { i \in 0..(Len(s) - Len(k)) : SubSeq(s, i + 1, i + Len(k)) = k }
    IN  IF hits = {} THEN npos ELSE Min(hits)

\* Matches with the result of find used as a truth value
Matches_truthy(part_str, t) == find(part_str, part_types_list[t]) # 0

\* the test of line 122
Matches(part_str, t) == find(part_str, part_types_list[t]) # npos

\* part_str after weaponParts.push_back(std::move(part_str)): the move
\* constructor leaves the source empty under both string ABIs
MoveConstructed(part_str) == ""

\* part_str after slot = std::move(part_str), where old is what the slot held:
\* cleared (SSO strings) or swapped with the target (copy-on-write strings)
MoveAssigned(part_str, old) == IF stringABI = "cow" THEN old ELSE ""

\* std::shuffle: any permutation of the list
Shuffles(list) ==
    { [i \in 1..Len(list) |-> list[p[i]]] : p \in Permutations(1..Len(list)) }

\* the state the constructor's loops work on
EmptyShip == [parts |-> <<>>, small |-> "", large |-> "", wp |-> <<>>, part_str |-> ""]

Put(f, k, v) == [x \in (DOMAIN f) \cup {k} |-> IF x = k THEN v ELSE f[x]]

\* lines 122-143: one iteration of the inner loop, for keyword type t
TypeStep(st, t) ==
    IF Matches(st.part_str, t)
    THEN IF t = "Weapon"
         THEN [st EXCEPT !.wp = Append(@, st.part_str),
                         !.part_str = MoveConstructed(st.part_str)]
         ELSE IF t = "Wings"
         THEN IF st.small = ""
              THEN [st EXCEPT !.small = st.part_str,
                              !.part_str = MoveAssigned(st.part_str, st.small)]
              ELSE IF st.large = ""
              THEN [st EXCEPT !.large = st.part_str,
                              !.part_str = MoveAssigned(st.part_str, st.large)]
              ELSE st
         ELSE [st EXCEPT !.parts = Put(st.parts, t, st.part_str),
                         !.part_str = MoveAssigned(st.part_str,
                                         IF t \in DOMAIN st.parts
                                         THEN st.parts[t] ELSE "")]
    ELSE st

\* lines 120-144: the inner loop from the j-th keyword of the order on
RECURSIVE InnerLoop(_, _)
InnerLoop(st, j) ==
    IF j > Len(order) THEN st ELSE InnerLoop(TypeStep(st, order[j]), j + 1)

\* lines 118-145: one iteration of the outer loop, part_str a copy of the line
LineStep(st, line) == InnerLoop([st EXCEPT !.part_str = line], 1)

\* LoopEnd with the loop stopping one element early
LoopEnd_skipLast(list) == Len(list) - 1

\* the last index the outer loop visits
LoopEnd(list) == Len(list)

\* lines 148-149: copy_n of min(_weapons.size(), weaponParts.size()) strings
CopyN(wp) ==
    LET n == IF WeaponSlots <= Len(wp) THEN WeaponSlots ELSE Len(wp)
    IN  [k \in 1..WeaponSlots |-> IF k <= n THEN wp[k] ELSE ""]

\* lines 118-145: the outer loop from index i on
RECURSIVE OuterLoop(_, _, _)
OuterLoop(st, list, i) ==
    IF i > LoopEnd(list) THEN st ELSE OuterLoop(LineStep(st, list[i]), list, i + 1)

\* lines 100-150: the ship the constructor builds from an (already shuffled) list
Build(list) ==
    LET st == OuterLoop(EmptyShip, list, 1)
    IN  [parts |-> st.parts, small |-> st.small, large |-> st.large,
         weapons |-> CopyN(st.wp)]

\* the constructor's working state, read from the variables
Ship == [parts |-> _parts, small |-> _smallWings, large |-> _largeWings,
         wp |-> weaponParts, part_str |-> ""]

\* what() of the exceptions, as main and Print write them to std::cerr
Diagnostic(what) == "Exception: \"" \o what \o "\"\n"

NotExistMesg == "file: '" \o parts_filename \o "' does not exist!"
NotOpenedMesg == "file: '" \o parts_filename \o "' could not be opened!"
LoadedMesg == "Parts loaded from: " \o parts_filename \o "\n"
OutOfRange == "unordered_map::at"

\* the keys Print reads with _parts.at(), in the order of the statement
AtOrder == <<"Engine", "Fuselage", "Cabin", "Armor">>

\* lines 54-60: the operands of the first output statement, left to right
\* (a key that is absent makes at() throw before its operand is written)
PartsChunks ==
    LET at(t) == IF t \in DOMAIN _parts THEN _parts[t] ELSE ""
    IN  <<"\nThis ship is loaded with:",
          "\n  Engine: ", at("Engine"),
          "\n  Fuselage: ", at("Fuselage"),
          "\n  Cabin: ", at("Cabin"),
          "\n  Armor: ", at("Armor"),
          "\n  Wings:\n    (small): ", _smallWings,
          "\n    (large): ", _largeWings>>

\* positions in AtOrder of the keys that are absent from _parts
Absent == { n \in 1..Len(AtOrder) : AtOrder[n] \notin DOMAIN _parts }

\* lines 62-71: "[", every weapon but the last followed by ", ", the last, "]"
RECURSIVE TakeChunks(_, _)
TakeChunks(w, k) ==
    IF k > Len(w) - 1 THEN <<>> ELSE <<w[k], ", ">> \o TakeChunks(w, k + 1)

WeaponsChunks(w) == <<"\n  Weapons: [">> \o TakeChunks(w, 1) \o <<w[Len(w)], "]\n">>

(***************************************************************************)
(* Initial state: main is about to call fetch_parts_list.                  *)
(***************************************************************************)
NoExit == -1

Init ==
    /\ pc = "exists"
    /\ fileStatus \in {"missing", "unopenable", "ok"}
    /\ fileLines \in (IF fileStatus = "missing" THEN {<<>>} ELSE Files)
    /\ stringABI \in StringABIs
    /\ vec = <<>>
    /\ part_list = <<>>
    /\ order = <<>>
    /\ idx = 0
    /\ weaponParts = <<>>
    /\ _parts = <<>>
    /\ _smallWings = ""
    /\ _largeWings = ""
    /\ _weapons = [k \in 1..WeaponSlots |-> ""]
    /\ out = <<>>
    /\ err = <<>>
    /\ exit_code = NoExit

(***************************************************************************)
(* fetch_parts_list                                                        *)
(***************************************************************************)
\* lines 164-170 and 213-216: the path does not exist; the exception reaches
\* the handler of main
FetchNotExists ==
    /\ pc = "exists"
    /\ fileStatus = "missing"
    /\ err' = Append(err, Diagnostic(NotExistMesg))
    /\ exit_code' = 1
    /\ pc' = "exit"
    /\ UNCHANGED <<fileStatus, fileLines, stringABI, vec, part_list, order, idx,
                   weaponParts, _parts, _smallWings, _largeWings, _weapons, out>>

\* line 164: the path exists
FetchExists ==
    /\ pc = "exists"
    /\ fileStatus # "missing"
    /\ pc' = "open"
    /\ UNCHANGED <<fileStatus, fileLines, stringABI, vec, part_list, order, idx,
                   weaponParts, _parts, _smallWings, _largeWings, _weapons, out,
                   err, exit_code>>

\* lines 172-181 and 213-216: the file could not be opened
FetchNotOpened ==
    /\ pc = "open"
    /\ fileStatus = "unopenable"
    /\ err' = Append(err, Diagnostic(NotOpenedMesg))
    /\ exit_code' = 1
    /\ pc' = "exit"
    /\ UNCHANGED <<fileStatus, fileLines, stringABI, vec, part_list, order, idx,
                   weaponParts, _parts, _smallWings, _largeWings, _weapons, out>>

\* lines 172-194: the file is open, vec is empty
FetchOpened ==
    /\ pc = "open"
    /\ fileStatus = "ok"
    /\ vec' = <<>>
    /\ pc' = "read"
    /\ UNCHANGED <<fileStatus, fileLines, stringABI, part_list, order, idx,
                   weaponParts, _parts, _smallWings, _largeWings, _weapons, out,
                   err, exit_code>>

\* lines 196-200: getline read one more line
ReadLine ==
    /\ pc = "read"
    /\ Len(vec) < Len(fileLines)
    /\ vec' = Append(vec, fileLines[Len(vec) + 1])
    /\ UNCHANGED <<pc, fileStatus, fileLines, stringABI, part_list, order, idx,
                   weaponParts, _parts, _smallWings, _largeWings, _weapons, out,
                   err, exit_code>>

\* FetchReturn without waiting for the end of the file
FetchReturn_noEof ==
    /\ pc = "read"
    /\ out' = Append(out, LoadedMesg)
    /\ part_list' = vec
    /\ vec' = <<>>
    /\ pc' = "ctor"
    /\ UNCHANGED <<fileStatus, fileLines, stringABI, order, idx, weaponParts,
                   _parts, _smallWings, _largeWings, _weapons, err, exit_code>>

\* lines 196, 202-203, 210: getline hit the end of the file; the message is
\* written and vec becomes the constructor's part_list
FetchReturn ==
    /\ pc = "read"
    /\ Len(vec) = Len(fileLines)
    /\ out' = Append(out, LoadedMesg)
    /\ part_list' = vec
    /\ vec' = <<>>
    /\ pc' = "ctor"
    /\ UNCHANGED <<fileStatus, fileLines, stringABI, order, idx, weaponParts,
                   _parts, _smallWings, _largeWings, _weapons, err, exit_code>>

(***************************************************************************)
(* Spaceship::Spaceship                                                    *)
(***************************************************************************)
\* lines 103-115: the keyword map is built and the list shuffled
Shuffle ==
    /\ pc = "ctor"
    /\ order' \in Orders
    /\ part_list' \in Shuffles(part_list)
    /\ weaponParts' = <<>>
    /\ idx' = 1
    /\ pc' = "loop"
    /\ UNCHANGED <<fileStatus, fileLines, stringABI, vec, _parts, _smallWings,
                   _largeWings, _weapons, out, err, exit_code>>

\* lines 118-145: one iteration of the outer loop
ClassifyLine ==
    /\ pc = "loop"
    /\ idx <= LoopEnd(part_list)
    /\ LET st == LineStep(Ship, part_list[idx])
       IN  /\ _parts' = st.parts
           /\ _smallWings' = st.small
           /\ _largeWings' = st.large
           /\ weaponParts' = st.wp
    /\ idx' = idx + 1
    /\ UNCHANGED <<pc, fileStatus, fileLines, stringABI, vec, part_list, order,
                   _weapons, out, err, exit_code>>

\* lines 147-150: the loop is over; the weapons are moved into the array
CopyWeapons ==
    /\ pc = "loop"
    /\ idx > LoopEnd(part_list)
    /\ _weapons' = CopyN(weaponParts)
    /\ weaponParts' = <<>>
    /\ pc' = "print"
    /\ UNCHANGED <<fileStatus, fileLines, stringABI, vec, part_list, order, idx,
                   _parts, _smallWings, _largeWings, out, err, exit_code>>

(***************************************************************************)
(* Spaceship::Print                                                        *)
(***************************************************************************)
\* PrintParts without the handler of Print: the exception of at() reaches
\* the handler of main
PrintParts_propagates ==
    /\ pc = "print"
    /\ IF Absent = {}
       THEN /\ out' = out \o PartsChunks
            /\ pc' = "weapons"
            /\ UNCHANGED <<err, exit_code>>
       ELSE /\ out' = out \o SubSeq(PartsChunks, 1, 2 * Min(Absent))
            /\ err' = Append(err, Diagnostic(OutOfRange))
            /\ exit_code' = 1
            /\ pc' = "exit"
    /\ UNCHANGED <<fileStatus, fileLines, stringABI, vec, part_list, order, idx,
                   weaponParts, _parts, _smallWings, _largeWings, _weapons>>

\* lines 54-60 and 73-76: the first output statement.  With a key absent,
\* the operands before the failing at() are written, at() throws and the
\* handler of Print writes the diagnostic.
PrintParts ==
    /\ pc = "print"
    /\ IF Absent = {}
       THEN /\ out' = out \o PartsChunks
            /\ pc' = "weapons"
            /\ UNCHANGED err
       ELSE /\ out' = out \o SubSeq(PartsChunks, 1, 2 * Min(Absent))
            /\ err' = Append(err, Diagnostic(OutOfRange))
            /\ pc' = "return"
    /\ UNCHANGED <<fileStatus, fileLines, stringABI, vec, part_list, order, idx,
                   weaponParts, _parts, _smallWings, _largeWings, _weapons,
                   exit_code>>

\* lines 62-71: the weapons line
PrintWeapons ==
    /\ pc = "weapons"
    /\ out' = out \o WeaponsChunks(_weapons)
    /\ pc' = "return"
    /\ UNCHANGED <<fileStatus, fileLines, stringABI, vec, part_list, order, idx,
                   weaponParts, _parts, _smallWings, _largeWings, _weapons, err,
                   exit_code>>

\* line 211
MainReturn ==
    /\ pc = "return"
    /\ exit_code' = 0
    /\ pc' = "exit"
    /\ UNCHANGED <<fileStatus, fileLines, stringABI, vec, part_list, order, idx,
                   weaponParts, _parts, _smallWings, _largeWings, _weapons, out,
                   err>>

Next ==
    \/ FetchNotExists
    \/ FetchExists
    \/ FetchNotOpened
    \/ FetchOpened
    \/ ReadLine
    \/ FetchReturn
    \/ Shuffle
    \/ ClassifyLine
    \/ CopyWeapons
    \/ PrintParts
    \/ PrintWeapons
    \/ MainReturn

Spec == Init /\ [][Next]_vars

(***************************************************************************)
(* Vocabulary of the properties.                                           *)
(***************************************************************************)
Range(s) == { s[i] : i \in DOMAIN s }

\* k occurs in s as a substring
Contains(s, k) == \E i \in 1..(Len(s) - Len(k) + 1) : SubSeq(s, i, i + Len(k) - 1) = k

\* a and b hold the same lines, each as often
SameLines(a, b) ==
    /\ Len(a) = Len(b)
    /\ \A x \in Range(a) \cup Range(b) :
          Cardinality({i \in DOMAIN a : a[i] = x})
              = Cardinality({i \in DOMAIN b : b[i] = x})

Types == Range(Part_Type)
SingleValued == {"Engine", "Fuselage", "Cabin", "Armor"}

\* the lines of list that contain the keyword of type t, in order
MatchingLines(list, t) == SelectSeq(list, LAMBDA s : Contains(s, part_types_list[t]))

\* the ship as it stands in the variables
Built == [parts |-> _parts, small |-> _smallWings, large |-> _largeWings,
          weapons |-> _weapons]

\* every string a slot holds at the moment
Stored ==
    {_parts[t] : t \in DOMAIN _parts}
        \cup (({_smallWings, _largeWings} \cup Range(weaponParts) \cup Range(_weapons))
                \ {""})

RECURSIVE Concat(_)
Concat(chunks) == IF chunks = <<>> THEN "" ELSE Head(chunks) \o Concat(Tail(chunks))

RECURSIVE Join(_, _)
Join(strs, sep) ==
    IF strs = <<>> THEN ""
    ELSE IF Len(strs) = 1 THEN strs[1]
    ELSE strs[1] \o sep \o Join(Tail(strs), sep)

(***************************************************************************)
(* Properties.                                                             *)
(***************************************************************************)

\* C8: main returns 1 exactly when loading failed (the path is missing or
\* could not be opened), and then a diagnostic is on std::cerr; whenever
\* loading succeeded it returns 0, also when Print failed and wrote its own
\* diagnostic.
C8_ExitCodeByLoading ==
    pc = "exit" =>
        /\ exit_code \in {0, 1}
        /\ exit_code = 1 <=> fileStatus # "ok"
        /\ exit_code = 0 <=> fileStatus = "ok"
        /\ exit_code = 1 =>
              err \in {<<Diagnostic(NotExistMesg)>>, <<Diagnostic(NotOpenedMesg)>>}

\* C8 witness: the file loaded, Print failed on an absent slot and wrote its
\* diagnostic, and main returned
C8_Witness ==
    /\ pc = "exit"
    /\ fileStatus = "ok"
    /\ err = <<Diagnostic(OutOfRange)>>

\* C9: in every state, during the classification loop and after it, every
\* key of _parts is a single-valued category, every string a slot holds is
\* one of the input lines and contains the keyword of its own slot, and no
\* stored string is free of all six keywords.
C9_ClassificationSound ==
    /\ DOMAIN _parts \subseteq SingleValued
    /\ \A t \in DOMAIN _parts :
          /\ _parts[t] \in Range(fileLines)
          /\ Contains(_parts[t], part_types_list[t])
    /\ \A w \in {_smallWings, _largeWings} \ {""} :
          /\ w \in Range(fileLines)
          /\ Contains(w, part_types_list["Wings"])
    /\ \A w \in (Range(weaponParts) \cup Range(_weapons)) \ {""} :
          /\ w \in Range(fileLines)
          /\ Contains(w, part_types_list["Weapon"])
    /\ \A s \in Stored : \E t \in Types : Contains(s, part_types_list[t])

\* C9 witness: in the middle of the loop, after a line without keyword, a
\* line with two keywords and a weapon line were classified
C9_Witness ==
    /\ pc = "loop"
    /\ idx = 4
    /\ Len(part_list) = 4
    /\ part_list[1] = "cockpit"
    /\ part_list[2] = "armored engine"
    /\ part_list[3] = "laser weapon"
    /\ Stored = {"armored engine", "laser weapon"}

\* position of main in the pipeline
Position(p) ==
    CASE p = "exists"  -> 1
      [] p = "open"    -> 2
      [] p = "read"    -> 3
      [] p = "ctor"    -> 4
      [] p = "loop"    -> 5
      [] p = "print"   -> 6
      [] p = "weapons" -> 7
      [] p = "return"  -> 8
      [] p = "exit"    -> 9

LoadSteps == {"exists", "open", "read"}
BuildSteps == {"ctor", "loop"}
PrintSteps == {"print", "weapons"}

C10_State ==
    \* the confirmation is the first thing written, once, before any report
    /\ out # <<>> => /\ out[1] = LoadedMesg
                     /\ \A i \in 2..Len(out) : out[i] # LoadedMesg
    \* building and printing work on a fully loaded file
    /\ pc \in BuildSteps \cup PrintSteps =>
          /\ fileStatus = "ok"
          /\ out # <<>>
          /\ SameLines(part_list, fileLines)
    \* nothing is written before the constructor has finished
    /\ pc \in LoadSteps \cup BuildSteps => Len(out) <= 1
    \* a failed load: no confirmation, no report, no Spaceship
    /\ fileStatus # "ok" =>
          /\ out = <<>>
          /\ pc \in LoadSteps \cup {"exit"}
          /\ part_list = <<>>
          /\ order = <<>>
          /\ Built = [parts |-> <<>>, small |-> "", large |-> "",
                      weapons |-> [k \in 1..WeaponSlots |-> ""]]

C10_Step ==
    \* main only moves forward: no step is taken twice
    /\ pc' # pc => Position(pc') > Position(pc)
    \* load, then build, then print, then exit; only a failed load or a
    \* failed Print skips ahead
    /\ pc \in LoadSteps => pc' \in LoadSteps \cup {"ctor", "exit"}
    /\ pc \in BuildSteps => pc' \in BuildSteps \cup {"print"}
    /\ pc \in PrintSteps => pc' \in PrintSteps \cup {"return"}
    /\ pc = "return" => pc' \in {"return", "exit"}
    /\ pc = "exit" => UNCHANGED vars
    \* the confirmation is written when the whole file has been read
    /\ (out = <<>> /\ out' # <<>>) => (pc = "read" /\ vec = fileLines)

\* C10: the steps are taken at most once each, in the order load, build
\* (shuffle and classify), print, exit; the loader's confirmation is written
\* only once the whole file has been read and before any report output; when
\* loading fails no confirmation and no report is written and no Spaceship
\* is constructed.
C10_PipelineOrder == [][C10_Step]_vars /\ []C10_State

\* C10 witness: a run that loaded four lines, built the ship, printed the
\* whole report and returned
C10_Witness ==
    /\ pc = "exit"
    /\ Len(fileLines) = 4
    /\ exit_code = 0
    /\ out # <<>>
    /\ out[1] = LoadedMesg
    /\ out[Len(out)] = "]\n"

\* at most one line of list contains the keyword of type t
AtMostOne(list, t) == Len(MatchingLines(list, t)) <= 1

\* The ship built from the shuffled list is the ship the constructor builds
\* from the lines in file order.  Shuffle reaches every ordering of the
\* file, so this holding in all of them makes any two orderings agree.
OrderIrrelevant == Built = Build(fileLines)

\* C2 as stated: when no single-valued category (Engine, Fuselage, Cabin,
\* Armor) is matched by more than one line, every permutation of the lines
\* yields the same ship, wing slots and weapon sequence included.
C2_ShuffleIrrelevant_Original ==
    (pc = "print" /\ \A t \in SingleValued : AtMostOne(part_list, t))
        => OrderIrrelevant

\* C2 amended: when no category at all (Engine, Fuselage, Cabin, Armor,
\* Wings, Weapon) is matched by more than one line, every permutation of the
\* lines yields the same ship.
C2_ShuffleIrrelevant ==
    (pc = "print" /\ \A t \in Types : AtMostOne(part_list, t))
        => OrderIrrelevant

\* C2 witness: a ship built from a reordered file of one wings line, one
\* weapon line and a line naming two single-valued categories
C2_Witness ==
    /\ pc = "print"
    /\ \A t \in Types : AtMostOne(part_list, t)
    /\ fileLines = <<"small wings", "laser weapon", "armored engine">>
    /\ part_list = <<"armored engine", "laser weapon", "small wings">>
    /\ _smallWings = "small wings"
    /\ _weapons[1] = "laser weapon"

\* the line the outer loop has just classified is filed under type t
FiledUnder(line, t) ==
    CASE t = "Weapon" -> line \in Range(weaponParts)
      [] t = "Wings"  -> \/ line \in {_smallWings, _largeWings}
                         \/ (_smallWings # "" /\ _largeWings # "")
      [] OTHER        -> t \in DOMAIN _parts /\ _parts[t] = line

\* C1: a line that contains the keywords of several categories is filed
\* under every one of them (a wings match may still be dropped when both
\* wing slots are taken).
C1_MultiMatchFiledEverywhere ==
    (pc = "loop" /\ idx > 1) =>
        \A t \in Types :
            Contains(part_list[idx - 1], part_types_list[t])
                => FiledUnder(part_list[idx - 1], t)

\* the first n elements of list, padded with empty strings to WeaponSlots
FirstPadded(list) ==
    [k \in 1..WeaponSlots |-> IF k <= Len(list) THEN list[k] ELSE ""]

C4_WingsRouting ==
    pc = "print" =>
        LET wl == MatchingLines(part_list, "Wings")
        IN  /\ _smallWings = (IF Len(wl) >= 1 THEN wl[1] ELSE "")
            /\ _largeWings = (IF Len(wl) >= 2 THEN wl[2] ELSE "")

\* C5: after construction every single-valued slot holds the last line, in
\* shuffled order, that contains its keyword, and is unset when no line does.
C5_LastMatchWins ==
    pc = "print" =>
        \A t \in SingleValued :
            LET ml == MatchingLines(part_list, t)
            IN  IF ml = <<>>
                THEN t \notin DOMAIN _parts
                ELSE t \in DOMAIN _parts /\ _parts[t] = ml[Len(ml)]

\* the labels of a complete report
ReportLabels ==
    {"\nThis ship is loaded with:", "\n  Engine: ", "\n  Fuselage: ",
     "\n  Cabin: ", "\n  Armor: ", "\n  Wings:\n    (small): ",
     "\n    (large): ", "\n  Weapons: ["}

\* C6: once Print has returned, the whole report is on std::cout (every
\* label up to the closing of the weapons line) and no diagnostic took its
\* place, whatever slots are unset.
C6_CompleteReport ==
    pc = "return" =>
        /\ ReportLabels \subseteq Range(out)
        /\ out[Len(out)] = "]\n"
        /\ err = <<>>

\* the non-empty strings of w, in order
NonEmpty(w) == SelectSeq(w, LAMBDA x : x # "")

\* the chunks Print wrote for the weapons line
PrintedWeaponsLine == SubSeq(out, Len(out) - 2 * WeaponSlots, Len(out))

\* C7: the weapons line lists exactly the non-empty weapon strings,
\* separated by ", ", inside brackets.
C7_WeaponsListing ==
    (pc = "return" /\ out[Len(out)] = "]\n") =>
        Concat(PrintedWeaponsLine)
            = "\n  Weapons: [" \o Join(NonEmpty(_weapons), ", ") \o "]\n"

====
